---- MODULE Spec2Model ----
(***************************************************************************)
(* A model of fuste_points_digest.py: one scheduled run of main() after    *)
(* another against a news page that changes between runs, a one-field      *)
(* state file, and an SMTP submission server.                              *)
(*                                                                         *)
(* Text.  A Python str is a sequence of tokens; a token is an opaque run   *)
(* of characters with a known width, lowercase form and month content.     *)
(* Concatenation is \o, so "Bonuses" followed by "x" is the text           *)
(* "Bonusesx", which starts with "Bonuses".  No token is a proper prefix   *)
(* of another token, so str.startswith is the prefix test on tokens.       *)
(* The typographic apostrophe of the source's "That's it" stop label       *)
(* (U+2019, line 88) cannot be written in a string here: the token         *)
(* "That[U+2019]s it" stands for it and "That's it" is the ASCII spelling. *)
(*                                                                         *)
(* Markup.  A page is the article's elements in document order followed by *)
(* the elements after the article.  Every element but ul holds one         *)
(* single-line text node; the li elements right after a ul are its items.  *)
(***************************************************************************)
EXTENDS Integers, Sequences, FiniteSets, TLC

VARIABLES
    page,        \* what the site serves at NEWS_URL
    env,         \* the names set in os.environ
    stateFile,   \* the file at STATE_PATH
    pc,          \* main()'s position
    state,       \* main()'s local `state`
    latest,      \* main()'s local `latest`
    run,         \* what this run has done so far
    notified,    \* post keys of the messages the server has accepted
    prev,        \* how the previous run ended
    runs         \* completed runs

vars == <<page, env, stateFile, pc, state, latest, run, notified, prev, runs>>

(***************************************************************************)
(* Bounds of the model.                                                    *)
(***************************************************************************)
MaxRuns == 2

(***************************************************************************)
(* Text                                                                    *)
(***************************************************************************)
Space == " "

Lower(t) ==
    CASE t = "Bonuses" -> "bonuses"
      [] t = "Side Quests" -> "side quests"
      [] t = "That[U+2019]s it" -> "that[U+2019]s it"
      [] t = "That's it" -> "that's it"
      [] t = "Cheers" -> "cheers"
      [] t = "GG" -> "gg"
      [] t = "March 3" -> "march 3"
      [] t = "Week 1" -> "week 1"
      [] t = "Week 2" -> "week 2"
      [] t = "Untitled" -> "untitled"
      [] t = "Unknown date" -> "unknown date"
      [] OTHER -> t

Width(t) ==
    CASE t = "W119" -> 119
      [] t \in {" ", "x", "y", "|"} -> 1
      [] t \in {"GG", "gg"} -> 2
      [] t \in {"Cheers", "cheers", "Week 1", "Week 2", "week 1", "week 2"} -> 6
      [] t \in {"Bonuses", "bonuses", "March 3", "march 3"} -> 7
      [] t \in {"Untitled", "untitled"} -> 8
      [] t \in {"That[U+2019]s it", "that[U+2019]s it", "That's it", "that's it"} -> 9
      [] t \in {"Side Quests", "side quests"} -> 11
      [] t \in {"Unknown date", "unknown date"} -> 12
      [] OTHER -> 1

\* The month names of lines 46-47 that occur in the tokens.
HasMonth(t) == t \in {"March 3"}

lower(s) == [i \in 1..Len(s) |-> Lower(s[i])]

RECURSIVE len(_)
len(s) == IF s = <<>> THEN 0 ELSE Width(Head(s)) + len(Tail(s))

startswith(s, p) == Len(s) >= Len(p) /\ SubSeq(s, 1, Len(p)) = p

RECURSIVE lstrip(_)
lstrip(s) == IF s # <<>> /\ Head(s) = Space THEN lstrip(Tail(s)) ELSE s

RECURSIVE rstrip(_)
rstrip(s) ==
    IF s # <<>> /\ s[Len(s)] = Space THEN rstrip(SubSeq(s, 1, Len(s) - 1)) ELSE s

strip(s) == rstrip(lstrip(s))

Untitled == <<"Untitled">>
UnknownDate == <<"Unknown date">>
LabelBonuses == <<"Bonuses">>
LabelSideQuests == <<"Side Quests">>
StopBonuses == {<<"Side Quests">>, <<"That[U+2019]s it">>, <<"Cheers">>, <<"GG">>}
StopSideQuests == {<<"That[U+2019]s it">>, <<"Cheers">>, <<"GG">>}

(***************************************************************************)
(* Markup                                                                  *)
(***************************************************************************)
El(tag, text) == [tag |-> tag, text |-> text]

\* Tag.get_text(" ", strip=True) of an element holding one text node.
get_text(e) == strip(e.text)

\* Tag.find(names) from position i on: the first element of the article with one of
\* the tags, 0 for None.
RECURSIVE find_from(_, _, _)
find_from(article, i, names) ==
    IF i > Len(article) THEN 0
    ELSE IF article[i].tag \in names THEN i
    ELSE find_from(article, i + 1, names)

find(article, names) == find_from(article, 1, names)

\* article.get_text("\n", strip=True).splitlines(): the stripped non-empty strings.
RECURSIVE text_lines(_)
text_lines(article) ==
    IF article = <<>> THEN <<>>
    ELSE (IF get_text(Head(article)) = <<>> THEN <<>> ELSE <<get_text(Head(article))>>)
         \o text_lines(Tail(article))

\* ul.find_all("li") with get_text of each: the li run that follows position j.
RECURSIVE list_items(_, _)
list_items(all, j) ==
    IF j + 1 > Len(all) \/ all[j + 1].tag # "li" THEN <<>>
    ELSE <<get_text(all[j + 1])>> \o list_items(all, j + 1)

(***************************************************************************)
(* fetch_latest_news: the extraction                                       *)
(***************************************************************************)
ScanLimit == 25
MetaLines == 30
MaxItemLen == 120

\* Lines 33-35.
title_of(article) ==
    LET title_el == find(article, {"h1", "h2"})
    IN  IF title_el # 0 THEN get_text(article[title_el]) ELSE Untitled

\* Lines 44-49: the first of the first 30 lines that holds a month name, <<>> for None.
RECURSIVE month_line(_, _)
month_line(lines, i) ==
    IF i > Len(lines) \/ i > MetaLines THEN <<>>
    ELSE IF \E k \in 1..Len(lines[i]) : HasMonth(lines[i][k]) THEN strip(lines[i])
    ELSE month_line(lines, i + 1)

\* Lines 38-50.
date_of(article) ==
    LET time_el == find(article, {"time"})
        date_text == IF time_el # 0 THEN get_text(article[time_el]) ELSE <<>>
        scanned == IF date_text = <<>> THEN month_line(text_lines(article), 1) ELSE date_text
    IN  IF scanned = <<>> THEN UnknownDate ELSE scanned

\* Lines 57-63, a variant that reads nxt.name without testing nxt for None.
RECURSIVE scan_for_list_unguarded(_, _, _)
scan_for_list_unguarded(all, nxt, left) ==
    IF left = 0 THEN 0
    ELSE IF nxt + 1 > Len(all) THEN -1
    ELSE IF all[nxt + 1].tag = "ul" THEN nxt + 1
    ELSE scan_for_list_unguarded(all, nxt + 1, left - 1)

\* Lines 57-63: up to `left` find_next() steps from position nxt.  The position of
\* the ul reached, 0 when the walk ends without one, -1 for an AttributeError.
RECURSIVE scan_for_list(_, _, _)
scan_for_list(all, nxt, left) ==
    IF left = 0 THEN 0
    ELSE IF nxt + 1 > Len(all) THEN 0
    ELSE IF all[nxt + 1].tag = "ul" THEN nxt + 1
    ELSE scan_for_list(all, nxt + 1, left - 1)

\* Lines 55-64 over the matching headings hs, in order.
RECURSIVE extract_from(_, _)
extract_from(all, hs) ==
    IF hs = <<>> THEN [err |-> FALSE, items |-> <<>>]
    ELSE LET j == scan_for_list(all, Head(hs), ScanLimit)
         IN  IF j < 0 THEN [err |-> TRUE, items |-> <<>>]
             ELSE IF j > 0 THEN [err |-> FALSE, items |-> list_items(all, j)]
             ELSE extract_from(all, Tail(hs))

\* Lines 55-56: the positions, in order from i on, of the h2, h3 and strong elements
\* of the article whose text is heading_text, case-insensitively.
RECURSIVE matching_headings(_, _, _)
matching_headings(article, i, heading_text) ==
    IF i > Len(article) THEN <<>>
    ELSE (IF /\ article[i].tag \in {"h2", "h3", "strong"}
             /\ lower(get_text(article[i])) = lower(heading_text)
          THEN <<i>> ELSE <<>>)
         \o matching_headings(article, i + 1, heading_text)

\* Lines 53-64.
extract_list_after_heading(article, rest, heading_text) ==
    extract_from(article \o rest, matching_headings(article, 1, heading_text))

\* Lines 73-85, a variant that stops at the first line over 120 characters.
RECURSIVE grab_loop_stop_at_long(_, _, _, _, _, _)
grab_loop_stop_at_long(text, i, on, out, after_label, stop_labels) ==
    IF i > Len(text) THEN out
    ELSE LET l == strip(text[i])
         IN  IF startswith(lower(l), lower(after_label))
               THEN grab_loop_stop_at_long(text, i + 1, TRUE, out, after_label, stop_labels)
             ELSE IF on /\ \E s \in stop_labels : startswith(lower(l), lower(s))
               THEN out
             ELSE IF on /\ l # <<>> /\ ~startswith(lower(l), lower(after_label))
               THEN IF len(l) <= MaxItemLen
                      THEN grab_loop_stop_at_long(text, i + 1, on, Append(out, l),
                                                  after_label, stop_labels)
                      ELSE out
             ELSE grab_loop_stop_at_long(text, i + 1, on, out, after_label, stop_labels)

\* Lines 73-85: the loop of grab_lines from line i on.
RECURSIVE grab_loop(_, _, _, _, _, _)
grab_loop(text, i, on, out, after_label, stop_labels) ==
    IF i > Len(text) THEN out
    ELSE LET l == strip(text[i])
         IN  IF startswith(lower(l), lower(after_label))
               THEN grab_loop(text, i + 1, TRUE, out, after_label, stop_labels)
             ELSE IF on /\ \E s \in stop_labels : startswith(lower(l), lower(s))
               THEN out
             ELSE IF on /\ l # <<>> /\ ~startswith(lower(l), lower(after_label))
               THEN grab_loop(text, i + 1, on,
                              IF len(l) <= MaxItemLen THEN Append(out, l) ELSE out,
                              after_label, stop_labels)
             ELSE grab_loop(text, i + 1, on, out, after_label, stop_labels)

\* Lines 72-85.
grab_lines(text, after_label, stop_labels) ==
    grab_loop(text, 1, FALSE, <<>>, after_label, stop_labels)

\* Lines 93-94: the items whose lowercase form is not the bare label.
RECURSIVE de_noise(_, _)
de_noise(items, label) ==
    IF items = <<>> THEN <<>>
    ELSE (IF lower(Head(items)) = lower(label) THEN <<>> ELSE <<Head(items)>>)
         \o de_noise(Tail(items), label)

\* Line 96.
post_key_of(date_text, title) == date_text \o <<"|">> \o title

NoRecord ==
    [err |-> "none", made |-> FALSE, post_key |-> <<>>, title |-> <<>>, date |-> <<>>,
     bonuses |-> <<>>, side_quests |-> <<>>, fb_bonuses |-> FALSE, fb_side_quests |-> FALSE]

\* Lines 66-94, a variant with the two fallbacks under one test of both sections.
sections_joint_fallback(article, rest) ==
    LET sb == extract_list_after_heading(article, rest, LabelBonuses)
        ss == extract_list_after_heading(article, rest, LabelSideQuests)
        loose == sb.items = <<>> \/ ss.items = <<>>
        text == text_lines(article)
    IN  [err |-> sb.err \/ ss.err,
         bonuses |-> IF loose THEN de_noise(grab_lines(text, LabelBonuses, StopBonuses),
                                            LabelBonuses)
                     ELSE sb.items,
         side_quests |-> IF loose THEN de_noise(grab_lines(text, LabelSideQuests,
                                                           StopSideQuests), LabelSideQuests)
                         ELSE ss.items,
         fb_bonuses |-> loose,
         fb_side_quests |-> loose]

\* Lines 66-94.  fb_bonuses and fb_side_quests record the calls of grab_lines.
sections(article, rest) ==
    LET sb == extract_list_after_heading(article, rest, LabelBonuses)
        ss == extract_list_after_heading(article, rest, LabelSideQuests)
        loose == sb.items = <<>> \/ ss.items = <<>>
        text == text_lines(article)
        b1 == IF loose /\ sb.items = <<>>
              THEN grab_lines(text, LabelBonuses, StopBonuses) ELSE sb.items
        s1 == IF loose /\ ss.items = <<>>
              THEN grab_lines(text, LabelSideQuests, StopSideQuests) ELSE ss.items
    IN  [err |-> sb.err \/ ss.err,
         bonuses |-> IF loose THEN de_noise(b1, LabelBonuses) ELSE b1,
         side_quests |-> IF loose THEN de_noise(s1, LabelSideQuests) ELSE s1,
         fb_bonuses |-> loose /\ sb.items = <<>>,
         fb_side_quests |-> loose /\ ss.items = <<>>]

\* Lines 26-106 on the parsed markup p.  url is the constant NEWS_URL and fetched_at
\* the wall clock; neither is read again by main() in a comparison.
fetch_latest_news(p) ==
    IF ~p.hasArticle THEN [NoRecord EXCEPT !.err = "RuntimeError"]
    ELSE LET title == title_of(p.article)
             date_text == date_of(p.article)
             sec == sections(p.article, p.rest)
         IN  IF sec.err THEN [NoRecord EXCEPT !.err = "AttributeError"]
             ELSE [err |-> "none", made |-> TRUE,
                   post_key |-> post_key_of(date_text, title),
                   title |-> title, date |-> date_text,
                   bonuses |-> sec.bonuses, side_quests |-> sec.side_quests,
                   fb_bonuses |-> sec.fb_bonuses, fb_side_quests |-> sec.fb_side_quests]

(***************************************************************************)
(* The pages the site may serve                                            *)
(***************************************************************************)
Page(article, rest) == [hasArticle |-> TRUE, article |-> article, rest |-> rest]
NoArticlePage == [hasArticle |-> FALSE, article |-> <<>>, rest |-> <<El("p", <<"x">>)>>]

RECURSIVE Fill(_)
Fill(n) == IF n = 0 THEN <<>> ELSE <<El("br", <<>>)>> \o Fill(n - 1)

RECURSIVE Lis(_)
Lis(items) == IF items = <<>> THEN <<>> ELSE <<El("li", Head(items))>> \o Lis(Tail(items))

Ul(items) == <<El("ul", <<>>)>> \o Lis(items)

RECURSIVE Paras(_)
Paras(lines) == IF lines = <<>> THEN <<>> ELSE <<El("p", Head(lines))>> \o Paras(Tail(lines))

\* Title and date markup.
Heads ==
    { <<El("h1", <<"Week 1">>), El("time", <<"March 3">>)>>,
      <<El("h2", <<"Week 2">>), El("p", <<"x">>), El("p", <<"y", " ", "March 3">>)>>,
      <<El("h1", <<" ", "Week 1", " ">>), El("time", <<"x">>)>>,
      <<El("h1", <<>>), El("time", <<" ">>)>>,
      <<El("h2", <<" ">>), El("h1", <<"Week 1">>)>>,
      <<El("p", <<"x">>)>>,
      <<>> }

Gaps == {0, ScanLimit - 1, ScanLimit}

ItemLists ==
    { <<>>, <<<<"x">>>>, <<<<"x">>, <<"y">>, <<"x", " ", "y">>>>,
      <<<<"Bonuses">>, <<"x">>>>, <<<<"y">>, <<"side quests">>>>, <<<<" ", "y", " ">>>> }

LooseRuns ==
    { <<<<"x">>, <<"W119", "x">>, <<"W119", "x", "y">>, <<"y">>>>,
      <<<<"x">>, <<"bonuses", "y">>, <<"y">>>>,
      <<<<"y">>, <<"Side Quests", "x">>, <<"x">>>>,
      <<<<"x">>, <<"That's it">>, <<"y">>>>,
      <<<<"x">>, <<"gg">>, <<"y">>>> }

\* The markup of one section: a heading with a list after a gap, a heading with no
\* list, two headings of which the second has the list, a bare label line followed
\* by lines, or nothing.
Section(label) ==
    { <<El("h2", label)>> \o Fill(g) \o Ul(items) : g \in Gaps, items \in ItemLists }
    \cup { <<El(t, lower(label))>> \o Ul(items) :
               t \in {"h3", "strong"}, items \in {<<<<"x">>, <<"y">>>>} }
    \cup { <<El("h3", label)>> \o Fill(ScanLimit) \o <<El("h3", label)>> \o Ul(items) :
               items \in {<<<<"x">>, <<"y">>>>} }
    \cup { <<El(t, label)>> \o Paras(lines) : t \in {"p", "h3"}, lines \in LooseRuns }
    \cup { <<El("p", lower(label) \o <<"x">>)>> \o Paras(lines) :
               lines \in {<<<<"x">>, <<"y">>>>} }
    \cup { <<>> }

\* The other section beside a section of Section(label).
Beside(label) ==
    { <<>>,
      <<El("h2", label)>> \o Ul(<<<<"x">>>>),
      <<El("h2", label)>> \o Ul(<<lower(label), <<"y">>>>),
      <<El("h2", label)>> \o Ul(<<>>),
      <<El("p", label)>> \o Paras(<<<<"y">>, <<"x">>>>) }

\* What follows the sections in the article, and what follows the article.
Ends ==
    { [tail |-> <<>>, rest |-> <<>>],
      [tail |-> <<El("p", <<"Cheers">>), El("p", <<"y">>)>>, rest |-> <<>>],
      [tail |-> <<El("p", <<"That[U+2019]s it">>), El("p", <<"x">>)>>,
       rest |-> <<El("p", <<"x">>)>> \o Ul(<<<<"y">>>>)] }

PlainHead == <<El("h1", <<"Week 1">>), El("time", <<"March 3">>)>>
PlainBonuses == <<El("h2", LabelBonuses)>> \o Ul(<<<<"x">>>>)
PlainSideQuests == <<El("h2", LabelSideQuests)>> \o Ul(<<<<"y">>>>)

\* The pages a first run may meet.
ExtractPages ==
    { Page(PlainHead \o b \o sq \o e.tail, e.rest) :
          b \in Section(LabelBonuses), sq \in Beside(LabelSideQuests), e \in Ends }
    \cup { Page(PlainHead \o b \o sq \o e.tail, e.rest) :
          b \in Beside(LabelBonuses), sq \in Section(LabelSideQuests), e \in Ends }
    \cup { Page(h \o PlainBonuses \o PlainSideQuests, <<>>) : h \in Heads }
    \cup { Page(h, <<>>) : h \in Heads }
    \cup { NoArticlePage }

\* The pages the site moves to between runs.
LaterPages ==
    { Page(PlainHead \o PlainBonuses \o PlainSideQuests, <<>>),
      Page(<<El("h2", <<"Week 2">>), El("time", <<"March 3">>)>> \o PlainBonuses, <<>>),
      Page(<<El("p", <<"x">>)>>, <<>>),
      NoArticlePage }

(***************************************************************************)
(* Configuration, state file, run record                                   *)
(***************************************************************************)
Required == {"TO_EMAIL", "FROM_EMAIL", "SMTP_HOST", "SMTP_USER", "SMTP_PASS"}
AllNames == Required \cup {"SMTP_PORT"}
Envs == {AllNames, Required} \cup { AllNames \ {v} : v \in Required }

Absent == [kind |-> "absent", has |-> FALSE, key |-> <<>>]
Corrupt == [kind |-> "corrupt", has |-> FALSE, key |-> <<>>]
Json(d) == [kind |-> "json", has |-> d.has, key |-> d.key]

EmptyDict == [has |-> FALSE, key |-> <<>>]

NewRun(file) ==
    [before |-> file, fetches |-> 0, calls |-> 0, connects |-> 0, delivered |-> FALSE,
     writes |-> 0, failedIn |-> "none", error |-> "none", outcome |-> "none"]

NoPrev == [ended |-> "none", failedIn |-> "none", key |-> <<>>, made |-> FALSE]

Init ==
    /\ \/ page \in ExtractPages /\ env = AllNames
       \/ page \in LaterPages /\ env \in Envs
    /\ stateFile = Absent
    /\ pc = "idle"
    /\ state = EmptyDict
    /\ latest = NoRecord
    /\ run = NewRun(Absent)
    /\ notified = {}
    /\ prev = NoPrev
    /\ runs = 0

(***************************************************************************)
(* The environment between runs                                            *)
(***************************************************************************)
\* The site replaces the page.
Publish ==
    /\ pc = "idle"
    /\ runs < MaxRuns
    /\ \E p \in LaterPages : p # page /\ page' = p
    /\ UNCHANGED <<env, stateFile, pc, state, latest, run, notified, prev, runs>>

\* The operator changes the variables the job is started with.
Reconfigure ==
    /\ pc = "idle"
    /\ runs < MaxRuns
    /\ page \in LaterPages
    /\ \E e \in Envs : e # env /\ env' = e
    /\ UNCHANGED <<page, stateFile, pc, state, latest, run, notified, prev, runs>>

(***************************************************************************)
(* main()                                                                  *)
(***************************************************************************)
\* Line 129 and load_state, lines 13-17: json.load raises on a file that holds no
\* complete JSON document.
LoadState ==
    /\ pc = "idle"
    /\ runs < MaxRuns
    /\ IF stateFile.kind = "corrupt"
       THEN /\ pc' = "failed"
            /\ run' = [NewRun(stateFile) EXCEPT !.failedIn = "load",
                           !.error = "JSONDecodeError", !.outcome = "failed"]
            /\ state' = EmptyDict
       ELSE /\ pc' = "loaded"
            /\ run' = NewRun(stateFile)
            /\ state' = [has |-> stateFile.has, key |-> stateFile.key]
    /\ latest' = NoRecord
    /\ UNCHANGED <<page, env, stateFile, notified, prev, runs>>

\* Lines 24-25: requests.get times out or fails, or raise_for_status raises.
FetchFails ==
    /\ pc = "loaded"
    /\ pc' = "failed"
    /\ run' = [run EXCEPT !.fetches = @ + 1, !.failedIn = "fetch",
                          !.error = "RequestException", !.outcome = "failed"]
    /\ UNCHANGED <<page, env, stateFile, state, latest, notified, prev, runs>>

\* Line 130 with a successful response: lines 24-106.
Fetch ==
    /\ pc = "loaded"
    /\ latest' = fetch_latest_news(page)
    /\ IF latest'.err # "none"
       THEN /\ pc' = "failed"
            /\ run' = [run EXCEPT !.fetches = @ + 1, !.failedIn = "extract",
                                  !.error = latest'.err, !.outcome = "failed"]
       ELSE /\ pc' = "fetched"
            /\ run' = [run EXCEPT !.fetches = @ + 1]
    /\ UNCHANGED <<page, env, stateFile, state, notified, prev, runs>>

\* Lines 132-136, a variant that treats every post as new.
CompareAlwaysNew ==
    /\ pc = "fetched"
    /\ pc' = "notify"
    /\ UNCHANGED <<page, env, stateFile, state, latest, run, notified, prev, runs>>

\* Lines 132-136: state.get("last_post_key") is None for a missing key, and None
\* equals no post key.
Compare ==
    /\ pc = "fetched"
    /\ IF state.has /\ state.key = latest.post_key
       THEN /\ pc' = "done"
            /\ run' = [run EXCEPT !.outcome = "noop"]
       ELSE /\ pc' = "notify"
            /\ run' = run
    /\ UNCHANGED <<page, env, stateFile, state, latest, notified, prev, runs>>

\* What send_email can come to once the configuration is read: a failure to connect
\* (line 123), in starttls (124), in login (125) or in send_message (126), or none.
SmtpResults == {"connect", "starttls", "login", "send_message", "ok"}

Delivered(r) == r = "ok"

\* Lines 158-160, a variant that saves the state before it sends.
SendEmailAfterSave ==
    /\ pc = "notify"
    /\ stateFile' = Json([has |-> TRUE, key |-> latest.post_key])
    /\ IF ~(Required \subseteq env)
       THEN /\ pc' = "failed"
            /\ run' = [run EXCEPT !.calls = @ + 1, !.writes = @ + 1, !.failedIn = "send",
                                  !.error = "KeyError", !.outcome = "failed"]
            /\ UNCHANGED notified
       ELSE \E r \in SmtpResults :
            /\ pc' = IF r = "ok" THEN "done" ELSE "failed"
            /\ run' = [run EXCEPT !.calls = @ + 1, !.connects = @ + 1, !.writes = @ + 1,
                           !.delivered = Delivered(r),
                           !.failedIn = IF r = "ok" THEN "none" ELSE "send",
                           !.error = IF r = "ok" THEN "none" ELSE "SMTPException",
                           !.outcome = IF r = "ok" THEN "notified" ELSE "failed"]
            /\ notified' = IF Delivered(r) THEN notified \cup {latest.post_key}
                           ELSE notified
    /\ UNCHANGED <<page, env, state, latest, prev, runs>>

\* Lines 158-160, a variant that carries on when the send raises.
SendEmailSwallowsErrors ==
    /\ pc = "notify"
    /\ pc' = "persist"
    /\ IF ~(Required \subseteq env)
       THEN /\ run' = [run EXCEPT !.calls = @ + 1]
            /\ UNCHANGED notified
       ELSE \E r \in SmtpResults :
            /\ run' = [run EXCEPT !.calls = @ + 1, !.connects = @ + 1,
                                  !.delivered = Delivered(r)]
            /\ notified' = IF Delivered(r) THEN notified \cup {latest.post_key}
                           ELSE notified
    /\ UNCHANGED <<page, env, stateFile, state, latest, prev, runs>>

\* Lines 158-160, a variant of send_email that reads the configuration with defaults.
SendEmailDefaultConfig ==
    /\ pc = "notify"
    /\ \E r \in SmtpResults :
       /\ pc' = IF r = "ok" THEN "persist" ELSE "failed"
       /\ run' = [run EXCEPT !.calls = @ + 1, !.connects = @ + 1,
                      !.delivered = Delivered(r),
                      !.failedIn = IF r = "ok" THEN "none" ELSE "send",
                      !.error = IF r = "ok" THEN "none" ELSE "SMTPException",
                      !.outcome = IF r = "ok" THEN "none" ELSE "failed"]
       /\ notified' = IF Delivered(r) THEN notified \cup {latest.post_key} ELSE notified
    /\ UNCHANGED <<page, env, stateFile, state, latest, prev, runs>>

\* Lines 158-160 and send_email, lines 108-126: os.environ[...] raises KeyError for a
\* missing name before any connection is made; SMTP_PORT alone has a default.
SendEmail ==
    /\ pc = "notify"
    /\ IF ~(Required \subseteq env)
       THEN /\ pc' = "failed"
            /\ run' = [run EXCEPT !.calls = @ + 1, !.failedIn = "send",
                                  !.error = "KeyError", !.outcome = "failed"]
            /\ UNCHANGED notified
       ELSE \E r \in SmtpResults :
            /\ pc' = IF r = "ok" THEN "persist" ELSE "failed"
            /\ run' = [run EXCEPT !.calls = @ + 1, !.connects = @ + 1,
                           !.delivered = Delivered(r),
                           !.failedIn = IF r = "ok" THEN "none" ELSE "send",
                           !.error = IF r = "ok" THEN "none" ELSE "SMTPException",
                           !.outcome = IF r = "ok" THEN "none" ELSE "failed"]
            /\ notified' = IF Delivered(r) THEN notified \cup {latest.post_key}
                           ELSE notified
    /\ UNCHANGED <<page, env, stateFile, state, latest, prev, runs>>

\* Lines 162-163 and save_state, lines 19-21.  open(..., "w") may raise and leave the
\* file as it was; once it has truncated the file, a failing json.dump leaves an
\* incomplete document.
SaveState ==
    /\ pc = "persist"
    /\ state' = [has |-> TRUE, key |-> latest.post_key]
    /\ \E r \in {"ok", "open", "dump"} :
       /\ stateFile' = CASE r = "ok" -> Json(state')
                         [] r = "open" -> stateFile
                         [] r = "dump" -> Corrupt
       /\ pc' = IF r = "ok" THEN "done" ELSE "failed"
       /\ run' = [run EXCEPT !.writes = IF r = "open" THEN @ ELSE @ + 1,
                      !.failedIn = IF r = "ok" THEN "none" ELSE "save",
                      !.error = IF r = "ok" THEN "none" ELSE "OSError",
                      !.outcome = IF r = "ok" THEN "notified" ELSE "failed"]
    /\ UNCHANGED <<page, env, latest, notified, prev, runs>>

\* The process exits; the scheduler starts the next run later.
Exit ==
    /\ pc \in {"done", "failed"}
    /\ pc' = "idle"
    /\ prev' = [ended |-> run.outcome, failedIn |-> run.failedIn,
                key |-> latest.post_key, made |-> latest.made]
    /\ runs' = runs + 1
    /\ state' = EmptyDict
    /\ latest' = NoRecord
    /\ run' = NewRun(stateFile)
    /\ UNCHANGED <<page, env, stateFile, notified>>

Next ==
    \/ Publish
    \/ Reconfigure
    \/ LoadState
    \/ FetchFails
    \/ Fetch
    \/ Compare
    \/ SendEmail
    \/ SaveState
    \/ Exit

Spec == Init /\ [][Next]_vars

(***************************************************************************)
(* Vocabulary of the properties                                            *)
(***************************************************************************)
InRun == pc # "idle"
Ended == pc \in {"done", "failed"}
MissingConfig == ~(Required \subseteq env)

\* The persisted lastPostKey is k.
Holds(file, k) == file.kind = "json" /\ file.has /\ file.key = k

\* The extracted postKey equals the lastPostKey persisted when the run began.
KeysEqual == latest.made /\ Holds(run.before, latest.post_key)

\* Past the comparison of lines 132-133.
Compared == latest.made /\ pc \in {"notify", "persist", "done", "failed"}

SentinelKey == UnknownDate \o <<"|">> \o Untitled

Min(S) == CHOOSE x \in S : \A y \in S : x <= y

All(p) == p.article \o p.rest

\* The headings of the section that have a list container among the next 25 elements.
HeadingsWithList(p, label) ==
    { i \in 1..Len(p.article) :
        /\ p.article[i].tag \in {"h2", "h3", "strong"}
        /\ lower(get_text(p.article[i])) = lower(label)
        /\ \E k \in 1..ScanLimit : i + k <= Len(All(p)) /\ All(p)[i + k].tag = "ul" }

\* The item texts of the list container that follows the first such heading.
ListAfterHeading(p, label) ==
    LET i == Min(HeadingsWithList(p, label))
        j == Min({ k \in (i + 1)..Len(All(p)) : All(p)[k].tag = "ul" })
        n == Cardinality({ k \in 1..(Len(All(p)) - j) :
                              \A m \in 1..k : All(p)[j + m].tag = "li" })
    IN  [k \in 1..n |-> get_text(All(p)[j + k])]

HasList(p, label) == HeadingsWithList(p, label) # {}

\* The structured pass of the section yields nothing.
StructuredEmpty(p, label) == ~HasList(p, label) \/ ListAfterHeading(p, label) = <<>>

NotLabel(label, item) == lower(item) # lower(label)

WithoutLabel(items, label) ==
    LET Keep(item) == NotLabel(label, item) IN SelectSeq(items, Keep)

\* The lines of the article between the first line that starts with the label and
\* the first later line that starts with one of the stop labels.
LinesInRange(p, label, stops) ==
    LET lines == text_lines(p.article)
        starts == { i \in 1..Len(lines) : startswith(lower(lines[i]), lower(label)) }
        a == IF starts = {} THEN Len(lines) + 1 ELSE Min(starts)
        ends == { i \in (a + 1)..Len(lines) :
                    \E st \in stops : startswith(lower(lines[i]), lower(st)) }
        z == IF ends = {} THEN Len(lines) + 1 ELSE Min(ends)
    IN  SubSeq(lines, a + 1, z - 1)

Short(l) == l # <<>> /\ len(l) <= MaxItemLen

(***************************************************************************)
(* C1                                                                      *)
(***************************************************************************)
\* C1: a run that reached the send (the keys differ or none is persisted) and whose
\* send failed has written no state: the state file is what it was when the run began.
C1_FailedSendWritesNothing ==
    (pc = "failed" /\ run.failedIn = "send")
        => run.writes = 0 /\ stateFile = run.before

\* A send fails after the connection was made, in a run that began with a persisted key.
C1_Witness ==
    /\ pc = "failed" /\ run.failedIn = "send" /\ run.connects = 1 /\ ~run.delivered
    /\ run.before.kind = "json" /\ run.before.has
    /\ run.before.key # latest.post_key

(***************************************************************************)
(* C2                                                                      *)
(***************************************************************************)
\* C2: every run ends as a no-op (no notification attempted, state unchanged), as
\* notified and persisted, or as failed with the state unchanged, and never with the
\* notification sent but lastPostKey not the new key, or with the state file changed
\* and no notification sent.
C2_RunsAreAtomic ==
    Ended =>
        LET noop == pc = "done" /\ run.calls = 0 /\ stateFile = run.before
            full == pc = "done" /\ run.delivered /\ Holds(stateFile, latest.post_key)
            failed == pc = "failed" /\ stateFile = run.before
        IN  /\ noop \/ full \/ failed
            /\ ~(noop /\ full) /\ ~(noop /\ failed) /\ ~(full /\ failed)
            /\ run.delivered => Holds(stateFile, latest.post_key)
            /\ stateFile # run.before => run.delivered

(***************************************************************************)
(* C3                                                                      *)
(***************************************************************************)
\* C3: when the extracted postKey equals the persisted lastPostKey the run ends
\* successfully with no notification attempt and no state write; a notification is
\* attempted only when the keys differ or none is persisted.
C3_EqualKeysNoOp ==
    /\ (Compared /\ KeysEqual) =>
          /\ pc = "done" /\ run.outcome = "noop"
          /\ run.calls = 0 /\ run.connects = 0 /\ run.writes = 0
          /\ stateFile = run.before
    /\ (pc = "notify" \/ run.calls > 0) => ~KeysEqual

\* A no-op run on the key made of both sentinels.
C3_Witness ==
    /\ pc = "done" /\ run.outcome = "noop" /\ KeysEqual
    /\ latest.post_key = SentinelKey

C5_NoBareLabelItems ==
    latest.made =>
        /\ \A i \in 1..Len(latest.bonuses) :
              lower(strip(latest.bonuses[i])) # lower(LabelBonuses)
        /\ \A i \in 1..Len(latest.side_quests) :
              lower(strip(latest.side_quests[i])) # lower(LabelSideQuests)

(***************************************************************************)
(* C6                                                                      *)
(***************************************************************************)
\* C6: on fetched markup with no article container the extraction fails with an
\* error and no record, and the run ends with no notification attempt and no state
\* write; on fetched markup with an article container the extraction does not fail.
C6_FailsOnlyWithoutArticle ==
    (run.fetches = 1 /\ run.failedIn # "fetch") =>
        IF ~page.hasArticle
        THEN /\ pc = "failed" /\ run.failedIn = "extract" /\ run.error = "RuntimeError"
             /\ ~latest.made
             /\ run.calls = 0 /\ run.writes = 0 /\ stateFile = run.before
        ELSE latest.made /\ latest.err = "none" /\ run.failedIn # "extract"

C6_Witness ==
    /\ run.fetches = 1 /\ ~page.hasArticle /\ pc = "failed"
    /\ run.failedIn = "extract" /\ Holds(run.before, <<"March 3", "|", "Week 1">>)

(***************************************************************************)
(* C7                                                                      *)
(***************************************************************************)
\* The statement of C7 for one section: a matching heading with a list container
\* within the next 25 elements gives exactly that list's items, without the fallback.
StructuredAsClaimed(label, items, fb) ==
    /\ HasList(page, label) => items = ListAfterHeading(page, label) /\ ~fb
    /\ fb => StructuredEmpty(page, label)

\* C7 as stated, for both sections.
C7_StructuredItemsExact ==
    latest.made =>
        /\ StructuredAsClaimed(LabelBonuses, latest.bonuses, latest.fb_bonuses)
        /\ StructuredAsClaimed(LabelSideQuests, latest.side_quests, latest.fb_side_quests)

\* The amended statement for one section, `other` being the other section's label.
StructuredAmended(label, other, items, fb) ==
    /\ (HasList(page, label) /\ ListAfterHeading(page, label) # <<>>) =>
          /\ ~fb
          /\ items = IF StructuredEmpty(page, other)
                     THEN WithoutLabel(ListAfterHeading(page, label), label)
                     ELSE ListAfterHeading(page, label)
    /\ fb <=> StructuredEmpty(page, label)

\* C7, amended: when the list container that follows the first such heading has at
\* least one item, the fallback is not applied to the section and its items are that
\* list's item texts in order, less the items equal to the bare label when the other
\* section's structured pass yielded nothing; the fallback is applied to a section
\* exactly when its structured pass yielded nothing.
C7_StructuredItemsAmended ==
    latest.made =>
        /\ StructuredAmended(LabelBonuses, LabelSideQuests,
                             latest.bonuses, latest.fb_bonuses)
        /\ StructuredAmended(LabelSideQuests, LabelBonuses,
                             latest.side_quests, latest.fb_side_quests)

\* A bonuses list found at the very reach of the scan, holding the bare label, beside
\* a side-quests section with no list.
C7_Witness ==
    /\ latest.made /\ HasList(page, LabelBonuses)
    /\ Min(HeadingsWithList(page, LabelBonuses)) + ScanLimit <= Len(All(page))
    /\ All(page)[Min(HeadingsWithList(page, LabelBonuses)) + ScanLimit].tag = "ul"
    /\ ListAfterHeading(page, LabelBonuses) = <<<<"Bonuses">>, <<"x">>>>
    /\ StructuredEmpty(page, LabelSideQuests)
    /\ latest.bonuses = <<<<"x">>>> /\ ~latest.fb_bonuses /\ latest.fb_side_quests

(***************************************************************************)
(* C8                                                                      *)
(***************************************************************************)
\* C8 as stated: the fallback gives exactly the non-empty lines of at most 120
\* characters between the label line and the first later stop line, the stop labels
\* read as the source spells them.
C8_LooseLinesExact ==
    latest.made =>
        /\ latest.fb_bonuses =>
              latest.bonuses
                = SelectSeq(LinesInRange(page, LabelBonuses, StopBonuses), Short)
        /\ latest.fb_side_quests =>
              latest.side_quests
                = SelectSeq(LinesInRange(page, LabelSideQuests, StopSideQuests), Short)

ShortNotBonuses(l) == Short(l) /\ ~startswith(lower(l), lower(LabelBonuses))
ShortNotSideQuests(l) == Short(l) /\ ~startswith(lower(l), lower(LabelSideQuests))

\* C8, amended: the lines of the range that themselves start with the section label
\* are left out, like the lines over 120 characters, without stopping the collection;
\* the stop label is "That[U+2019]s it" with the typographic apostrophe.
C8_LooseLinesAmended ==
    latest.made =>
        /\ latest.fb_bonuses =>
              latest.bonuses
                = SelectSeq(LinesInRange(page, LabelBonuses, StopBonuses), ShortNotBonuses)
        /\ latest.fb_side_quests =>
              latest.side_quests
                = SelectSeq(LinesInRange(page, LabelSideQuests, StopSideQuests),
                            ShortNotSideQuests)

\* The bonuses fallback passes over a line of 121 characters, keeps one of 120 and
\* stops before the "Side Quests" line.
C8_Witness ==
    /\ latest.made /\ latest.fb_bonuses
    /\ latest.bonuses = <<<<"x">>, <<"W119", "x">>, <<"y">>>>
    /\ \E i \in 1..Len(text_lines(page.article)) :
          text_lines(page.article)[i] = <<"W119", "x", "y">>
    /\ \E i \in 1..Len(text_lines(page.article)) :
          text_lines(page.article)[i] = LabelSideQuests

(***************************************************************************)
(* C9                                                                      *)
(***************************************************************************)
\* C9: a run that fails in load, fetch, extraction or send leaves lastPostKey as it
\* was; the persisted key is always one a notification was sent for; a run is a
\* no-op only on a notified key; and the run after a failed send that extracts the
\* same key does not skip it but calls send_email again.
C9_FailedRunsSkipNothing ==
    /\ (pc = "failed" /\ run.failedIn \in {"load", "fetch", "extract", "send"})
          => stateFile = run.before
    /\ (stateFile.kind = "json" /\ stateFile.has) => stateFile.key \in notified
    /\ run.outcome = "noop" => latest.post_key \in notified
    /\ (/\ prev.ended = "failed" /\ prev.failedIn = "send"
        /\ Compared /\ latest.post_key = prev.key)
          => /\ run.outcome # "noop"
             /\ pc # "notify" => run.calls = 1

\* The run after a run whose send failed before delivery sends for the same key.
C9_Witness ==
    /\ prev.ended = "failed" /\ prev.failedIn = "send"
    /\ latest.made /\ latest.post_key = prev.key
    /\ run.calls = 1 /\ run.delivered /\ pc = "done"

(***************************************************************************)
(* C10                                                                     *)
(***************************************************************************)
\* C10: every record has a non-empty title, the text of the first h1 or h2 of the
\* article, or "Untitled" when that gives none.
C10_TitleNonEmpty ==
    latest.made =>
        /\ latest.title # <<>>
        /\ latest.title \in
              {Untitled} \cup { get_text(page.article[i]) : i \in 1..Len(page.article) }
        /\ find(page.article, {"h1", "h2"}) = 0 => latest.title = Untitled

====
